---- MODULE Spec2Model ----
(***************************************************************************)
(* twirp-rs: the binding generator (crates/twirp-build/src/lib.rs) and the *)
(* hand-written test fixture (crates/twirp/src/test.rs).                   *)
(*                                                                         *)
(* Rust strings are TLA+ strings built with \o exactly where the source    *)
(* builds them with format!/writeln!; the output buffer is the sequence of *)
(* emitted lines, one record per writeln!, holding the interpolated        *)
(* values.                                                                 *)
(***************************************************************************)
EXTENDS Naturals, Sequences, FiniteSets, TLC

VARIABLES
    gen,        \* the ServiceGenerator value: [async_trait_shim]
    buf,        \* the output buffer handed to generate, a sequence of lines
    calls,      \* the services generate has been called with, in order
    marks,      \* Len(buf) before each call of generate
    rpc,        \* where test_api_router stands
    router,     \* test_api_router's local `router`
    shared,     \* the Arc<Router> test_api_router returned, NoRouter before
    tasks,      \* per task: its last dispatch through the shared router
    client,     \* the TwirpClient's last call and what came of it
    stack,      \* frames of a call through the generated Arc<T> impl
    arc         \* that call: its state, arguments and result

genVars == <<gen, buf, calls, marks>>
fixVars == <<rpc, router, shared, tasks, client>>
arcVars == <<stack, arc>>
vars == <<gen, buf, calls, marks, rpc, router, shared, tasks, client, stack, arc>>

(***************************************************************************)
(* Bounds                                                                  *)
(***************************************************************************)
MaxMethods == 2
MaxServices == 2
MaxNameLen == 1
MaxDepth == 3

(***************************************************************************)
(* Service descriptions (prost_build::Service, prost_build::Method).       *)
(* prost_build derives Method.name (snake case) from Method.proto_name,    *)
(* and Service.name (upper camel case) from Service.proto_name.            *)
(***************************************************************************)
MethodPool ==
    { [name |-> "ping", proto_name |-> "Ping",
       input_type |-> "PingRequest", output_type |-> "PingResponse"],
      [name |-> "make_hat", proto_name |-> "MakeHat",
       input_type |-> "Size", output_type |-> "Hat"] }

RECURSIVE SeqsUpTo(_, _)
SeqsUpTo(S, n) ==
    IF n = 0 THEN { <<>> }
    ELSE LET shorter == SeqsUpTo(S, n - 1)
         IN  shorter \cup { Append(s, x) : s \in shorter, x \in S }

ServiceHeads ==
    { [name |-> "TestApi", package |-> "test", proto_name |-> "TestAPI"],
      [name |-> "Haberdasher", package |-> "example", proto_name |-> "Haberdasher"] }

Services ==
    { [name |-> h.name, package |-> h.package, proto_name |-> h.proto_name,
       methods |-> ms] : h \in ServiceHeads, ms \in SeqsUpTo(MethodPool, MaxMethods) }

(***************************************************************************)
(* ServiceGenerator                                                        *)
(***************************************************************************)
service_generator == [async_trait_shim |-> TRUE]

\* format!("{}.{}", service.package, service.proto_name)
ServiceFqn(service) == service.package \o "." \o service.proto_name

Attr(self) ==
    IF self.async_trait_shim
    THEN << [k |-> "attr", text |-> "#[twirp::async_trait::async_trait]"] >>
    ELSE << >>

RECURSIVE Concat(_)
Concat(ss) == IF ss = << >> THEN << >> ELSE Head(ss) \o Concat(Tail(ss))

\* for m in &service.methods { writeln!(...) }: the lines of each method, in
\* the order of service.methods
ForMethods(methods, Line(_)) ==
    Concat([i \in 1..Len(methods) |-> Line(methods[i])])

TraitFn(m) ==
    << [k |-> "trait_fn", name |-> m.name, req |-> m.input_type,
        ok |-> m.output_type, err |-> "twirp::TwirpErrorResponse"] >>

\* the receiver expression of the forwarding call is (*self)
ArcFn(m) ==
    << [k |-> "arc_fn", name |-> m.name, req |-> m.input_type,
        ok |-> m.output_type, err |-> "twirp::TwirpErrorResponse"],
       [k |-> "arc_call", receiver |-> "(*self)", callee |-> m.name,
        args |-> <<"ctx", "req">>],
       [k |-> "close"] >>

RouteWrongPath(m) ==
    << [k |-> "route", path |-> "/" \o m.name, req |-> m.input_type,
        callee |-> m.name, args |-> <<"ctx", "req">>] >>

RouteWrongCallee(m) ==
    << [k |-> "route", path |-> "/" \o m.proto_name, req |-> m.input_type,
        callee |-> "ping", args |-> <<"ctx", "req">>] >>

\* .route("/{uri}", |api: T, ctx, req: {req_type}| async move
\*        { api.{rust_method_name}(ctx, req).await })
Route(m) ==
    << [k |-> "route", path |-> "/" \o m.proto_name, req |-> m.input_type,
        callee |-> m.name, args |-> <<"ctx", "req">>] >>

ClientTraitFn(m) ==
    << [k |-> "client_trait_fn", name |-> m.name, req |-> m.input_type,
        ok |-> m.output_type, err |-> "twirp::ClientError"] >>

ClientFnFor(service_fqn, m) ==
    << [k |-> "client_fn", name |-> m.name, req |-> m.input_type,
        ok |-> m.output_type, err |-> "twirp::ClientError"],
       [k |-> "client_request", path |-> service_fqn \o "/" \o m.proto_name,
        args |-> <<"req">>],
       [k |-> "close"] >>

\* the text generate appends to buf for one service
Emitted(self, service) ==
    LET service_name == service.name
        service_fqn  == ServiceFqn(service)
        ClientFn(m)  == ClientFnFor(service_fqn, m)
    IN  << [k |-> "blank"],
           [k |-> "use", text |-> "pub use twirp;"],
           [k |-> "blank"],
           [k |-> "const", name |-> "SERVICE_FQN", value |-> "/" \o service_fqn] >>
        \o Attr(self)
        \o << [k |-> "trait", name |-> service_name] >>
        \o ForMethods(service.methods, TraitFn)
        \o << [k |-> "close"] >>
        \o Attr(self)
        \o << [k |-> "impl", trait |-> service_name, for |-> "std::sync::Arc<T>"],
              [k |-> "where"],
              [k |-> "bound", var |-> "T", trait |-> service_name],
              [k |-> "open"] >>
        \o ForMethods(service.methods, ArcFn)
        \o << [k |-> "close"] >>
        \o << [k |-> "fn", name |-> "router", bound |-> service_name,
               builder |-> "twirp::details::TwirpRouterBuilder::new(api)"] >>
        \o ForMethods(service.methods, Route)
        \o << [k |-> "build"] >>
        \o << [k |-> "blank"] >>
        \o Attr(self)
        \o << [k |-> "trait", name |-> service_name \o "Client"] >>
        \o ForMethods(service.methods, ClientTraitFn)
        \o << [k |-> "close"] >>
        \o Attr(self)
        \o << [k |-> "impl", trait |-> service_name \o "Client",
               for |-> "twirp::client::Client"] >>
        \o ForMethods(service.methods, ClientFn)
        \o << [k |-> "close"] >>

(***************************************************************************)
(* Reading the generated text back: the part of buf written by the k-th    *)
(* call of generate, and the lines of one kind in it.                      *)
(***************************************************************************)
Segment(k) ==
    SubSeq(buf, marks[k] + 1, IF k < Len(marks) THEN marks[k + 1] ELSE Len(buf))

LinesOf(seg, kind) == SelectSeq(seg, LAMBDA l : l.k = kind)

(***************************************************************************)
(* twirp::details::TwirpRouterBuilder and twirp::Router, which the         *)
(* generated router function drives: new(api), route(path, handler) once   *)
(* per method, build().  A route at a path already registered fails the    *)
(* build; dispatch looks the path up by exact string match.                *)
(***************************************************************************)
TwirpRouterBuilder_new(api) == [api |-> api, routes |-> << >>, ok |-> TRUE]

TwirpRouterBuilder_route(b, path, handler) ==
    IF \E i \in 1..Len(b.routes) : b.routes[i].path = path
    THEN [b EXCEPT !.ok = FALSE]
    ELSE [b EXCEPT !.routes = Append(@, [path |-> path, handler |-> handler])]

TwirpRouterBuilder_build(b) == b

\* index of the route registered at path, 0 when there is none (NotFound)
Lookup(routes, path) ==
    IF \E i \in 1..Len(routes) : routes[i].path = path
    THEN CHOOSE i \in 1..Len(routes) : routes[i].path = path
    ELSE 0

RECURSIVE RouteAll(_, _, _)
RouteAll(b, lines, i) ==
    IF i > Len(lines) THEN b
    ELSE RouteAll(TwirpRouterBuilder_route(b, lines[i].path,
                      [callee |-> lines[i].callee, args |-> lines[i].args]),
                  lines, i + 1)

\* what the router function emitted by the k-th call builds for api
GeneratedRouter(k, api) ==
    TwirpRouterBuilder_build(
        RouteAll(TwirpRouterBuilder_new(api), LinesOf(Segment(k), "route"), 1))

(***************************************************************************)
(* Implementations of a generated server trait: each maps a method and a   *)
(* request to the handler's result.                                        *)
(***************************************************************************)
Impls == {"echo", "failing"}
Reqs == {"r1", "r2"}
Ctxs == {"ctx"}

ServerCall(api, method, ctx, req) ==
    IF api = "echo"
    THEN [ok |-> TRUE, val |-> <<method, req>>]
    ELSE [ok |-> FALSE, err |-> [code |-> "internal", msg |-> method]]

NotFound == [ok |-> FALSE, err |-> [code |-> "NotFound"]]

\* the handler closure of a route: api.{callee}(ctx, req).await
RunHandler(api, handler, ctx, req) ==
    ServerCall(api, handler.callee, ctx, req)

GeneratedDispatch(k, api, path, ctx, req) ==
    LET r == GeneratedRouter(k, api)
        i == Lookup(r.routes, path)
    IN  IF i = 0 THEN NotFound ELSE RunHandler(r.api, r.routes[i].handler, ctx, req)

DistinctWireNames(service) ==
    \A i, j \in 1..Len(service.methods) :
        service.methods[i].proto_name = service.methods[j].proto_name => i = j


(***************************************************************************)
(* The fixture of crates/twirp/src/test.rs.  A Rust String is a sequence   *)
(* of characters here, so that JSON escaping is modelled.                  *)
(***************************************************************************)
Alphabet == {"a", "\"", "\\"}
Names == SeqsUpTo(Alphabet, MaxNameLen)
Tasks == {"t1", "t2"}

Quote == "\""
Backslash == "\\"

RECURSIVE Escape(_)
Escape(cs) ==
    IF cs = << >> THEN << >>
    ELSE (IF Head(cs) \in {Quote, Backslash}
          THEN <<Backslash, Head(cs)>> ELSE <<Head(cs)>>) \o Escape(Tail(cs))

NameKey == <<"{", Quote, "n", "a", "m", "e", Quote, ":", Quote>>

\* serde_json::to_string of PingRequest / PingResponse: {"name":"<escaped>"}
JsonOfName(name) == NameKey \o Escape(name) \o <<Quote, "}">>

\* the characters of a JSON string up to its closing quote, unescaped
RECURSIVE ReadString(_, _)
ReadString(cs, acc) ==
    IF cs = << >> THEN [ok |-> FALSE]
    ELSE IF Head(cs) = Quote THEN [ok |-> TRUE, val |-> acc, rest |-> Tail(cs)]
    ELSE IF Head(cs) = Backslash
         THEN IF Len(cs) >= 2 /\ cs[2] \in {Quote, Backslash}
              THEN ReadString(Tail(Tail(cs)), Append(acc, cs[2]))
              ELSE [ok |-> FALSE]
    ELSE ReadString(Tail(cs), Append(acc, Head(cs)))

\* serde_json::from_slice into a struct with one string field `name`
\* (#[serde(default)]: an empty object gives the empty name)
NameOfJson(body) ==
    IF body = <<"{", "}">> THEN [ok |-> TRUE, name |-> << >>]
    ELSE IF Len(body) >= Len(NameKey) /\ SubSeq(body, 1, Len(NameKey)) = NameKey
         THEN LET r == ReadString(SubSeq(body, Len(NameKey) + 1, Len(body)), << >>)
              IN  IF r.ok /\ r.rest = <<"}">>
                  THEN [ok |-> TRUE, name |-> r.val]
                  ELSE [ok |-> FALSE]
    ELSE [ok |-> FALSE]

\* read_json_body::<PingResponse>
read_json_body(body) == NameOfJson(body)

\* crate::internal(msg): the ServerError with code internal
internal(msg) == [code |-> "internal", msg |-> msg, meta |-> << >>]

TestAPIServer_pingAlt(req) == [ok |-> TRUE, val |-> [name |-> << >>]]

\* impl TestAPI for TestAPIServer
TestAPIServer_ping(req) == [ok |-> TRUE, val |-> [name |-> req.name]]

TestAPIServer_boom(req) == [ok |-> FALSE, err |-> internal("boom!")]

\* crate::Router: default(), add_method(path, handler), and its dispatch
Router_default == [routes |-> << >>, ok |-> TRUE]

Router_add_method(r, path, handler) ==
    IF \E i \in 1..Len(r.routes) : r.routes[i].path = path
    THEN [r EXCEPT !.ok = FALSE]
    ELSE [r EXCEPT !.routes = Append(@, [path |-> path, handler |-> handler])]

AddPingRoute(r) ==
    Router_add_method(r, "/twirp/test.TestAPI/Ping", [callee |-> "ping"])

AddBoomRouteAlt(r) ==
    Router_add_method(r, "/twirp/test.TestAPI/DoesNotExist", [callee |-> "boom"])

AddBoomRoute(r) ==
    Router_add_method(r, "/twirp/test.TestAPI/Boom", [callee |-> "boom"])

\* the router test_api_router returns
TestRouter == AddBoomRoute(AddPingRoute(Router_default))

gen_ping_request(name) ==
    [method |-> "POST", path |-> "/twirp/test.TestAPI/Ping", body |-> JsonOfName(name)]

\* the handler closures registered by test_api_router: api.ping(req) and
\* api.boom(req) on the Arc<TestAPIServer>
RunFixtureHandler(handler, req) ==
    IF handler.callee = "ping" THEN TestAPIServer_ping(req) ELSE TestAPIServer_boom(req)

\* Router dispatch of one request: exact-match lookup, NotFound when absent,
\* else decode the body, run the handler, encode its result
Router_dispatch(r, request) ==
    LET i == Lookup(r.routes, request.path)
        decoded == NameOfJson(request.body)
    IN  IF i = 0
        THEN [invoked |-> "none", status |-> 404, kind |-> "NotFound"]
        ELSE IF ~decoded.ok
        THEN [invoked |-> "none", status |-> 400, kind |-> "Malformed"]
        ELSE LET res == RunFixtureHandler(r.routes[i].handler, [name |-> decoded.name])
             IN  IF res.ok
                 THEN [invoked |-> r.routes[i].handler.callee, status |-> 200,
                       kind |-> "Ok", body |-> JsonOfName(res.val.name)]
                 ELSE [invoked |-> r.routes[i].handler.callee, status |-> 500,
                       kind |-> "ServerError", err |-> res.err]

(***************************************************************************)
(* The generator as a state machine                                        *)
(***************************************************************************)
\* no Router value yet
NoRouter == [none |-> TRUE]

FixtureIdle ==
    /\ rpc = "start"
    /\ router = NoRouter
    /\ shared = NoRouter
    /\ tasks = [t \in Tasks |-> [state |-> "idle"]]
    /\ client = [call |-> "none"]

ArcIdle ==
    /\ stack = << >>
    /\ arc = [state |-> "idle"]

InitGen ==
    /\ gen = service_generator
    /\ buf = << >>
    /\ calls = << >>
    /\ marks = << >>
    /\ FixtureIdle
    /\ ArcIdle

\* ServiceGenerator::async_trait_shim(self, b): a builder call, made before
\* the generator is handed to prost_build
async_trait_shim(b) ==
    /\ calls = << >>
    /\ gen' = [gen EXCEPT !.async_trait_shim = b]
    /\ UNCHANGED <<buf, calls, marks, fixVars, arcVars>>

\* <ServiceGenerator as prost_build::ServiceGenerator>::generate
generate(service) ==
    /\ Len(calls) < MaxServices
    /\ buf' = buf \o Emitted(gen, service)
    /\ calls' = Append(calls, service)
    /\ marks' = Append(marks, Len(buf))
    /\ UNCHANGED <<gen, fixVars, arcVars>>

NextGen ==
    \/ \E b \in BOOLEAN : async_trait_shim(b)
    \/ \E service \in Services : generate(service)

SpecGen == InitGen /\ [][NextGen]_vars

(***************************************************************************)
(* url::Url, by its origin and path segments; join resolves a relative     *)
(* reference: the base's last segment is dropped, the reference's          *)
(* segments appended.  A base ending in "/" has an empty last segment.     *)
(***************************************************************************)
Bases ==
    { [origin |-> "http://localhost:3000", segs |-> <<"">>],
      [origin |-> "http://127.0.0.1:8080", segs |-> <<"">>] }

Url_join(base, rel) ==
    [origin |-> base.origin, segs |-> SubSeq(base.segs, 1, Len(base.segs) - 1) \o rel]

RECURSIVE Url_path(_)
Url_path(segs) == IF segs = << >> THEN "" ELSE "/" \o Head(segs) \o Url_path(Tail(segs))

\* TestAPIClientExt::ping_url: base_url.join("twirp/test.testAPI/Ping")
ping_url(base_url) == Url_join(base_url, <<"twirp", "test.testAPI", "Ping">>)

\* crate::client::request, against a server that serves the shared router:
\* a success status decodes the body, any other status decodes the error
\* envelope into BadStatus, or gives Decode when there is none
ClientResult(response, envelope) ==
    IF response.status = 200
    THEN LET d == read_json_body(response.body)
         IN  IF d.ok THEN [kind |-> "Ok", val |-> [name |-> d.name]]
             ELSE [kind |-> "Decode"]
    ELSE IF response.kind \in {"NotFound", "Malformed"}
         THEN IF envelope
              THEN [kind |-> "BadStatus", status |-> response.status,
                    err |-> [code |-> response.kind, msg |-> "", meta |-> << >>]]
              ELSE [kind |-> "Decode"]
    ELSE [kind |-> "BadStatus", status |-> response.status, err |-> response.err]

InitFix ==
    /\ gen = service_generator
    /\ buf = << >>
    /\ calls = << >>
    /\ marks = << >>
    /\ FixtureIdle
    /\ ArcIdle

\* test_api_router, lines 13-14: the Arc<TestAPIServer> and Router::default()
TestApiRouter_New ==
    /\ rpc = "start"
    /\ router' = Router_default
    /\ rpc' = "new"
    /\ UNCHANGED <<shared, tasks, client, genVars, arcVars>>

\* lines 16-22
TestApiRouter_AddPing ==
    /\ rpc = "new"
    /\ router' = AddPingRoute(router)
    /\ rpc' = "ping_added"
    /\ UNCHANGED <<shared, tasks, client, genVars, arcVars>>

\* lines 23-28
TestApiRouter_AddBoom ==
    /\ rpc = "ping_added"
    /\ router' = AddBoomRoute(router)
    /\ rpc' = "boom_added"
    /\ UNCHANGED <<shared, tasks, client, genVars, arcVars>>

TestApiRouter_ReturnAlt ==
    /\ rpc = "ping_added"
    /\ shared = NoRouter
    /\ shared' = router
    /\ UNCHANGED <<rpc, router, tasks, client, genVars, arcVars>>

\* line 29: Arc::new(router), the local is moved into the Arc and returned
TestApiRouter_Return ==
    /\ rpc = "boom_added"
    /\ shared' = router
    /\ rpc' = "returned"
    /\ UNCHANGED <<router, tasks, client, genVars, arcVars>>

DispatchPaths ==
    { "/twirp/test.TestAPI/Ping", "/twirp/test.TestAPI/Boom",
      "/twirp/test.TestAPI/DoesNotExist" }

\* a task dispatches one request through the shared router; the request is
\* gen_ping_request(name), or the same request sent to another path
Dispatch(t, path, name) ==
    /\ shared # NoRouter
    /\ LET request  == [gen_ping_request(name) EXCEPT !.path = path]
           response == Router_dispatch(shared, request)
       IN  tasks' = [tasks EXCEPT ![t] =
                        [state |-> "done", name |-> name, request |-> request,
                         response |-> response]]
    /\ UNCHANGED <<rpc, router, shared, client, genVars, arcVars>>

\* impl TestAPIClient for TwirpClient, ping: ping_url, then ping_inner posts
\* the request to that URL
Client_ping(base_url, name, envelope) ==
    /\ shared # NoRouter
    /\ LET url      == ping_url(base_url)
           request  == [method |-> "POST", path |-> Url_path(url.segs),
                        body |-> JsonOfName(name)]
           response == Router_dispatch(shared, request)
       IN  client' = [call |-> "ping", path |-> request.path,
                      invoked |-> response.invoked,
                      result |-> ClientResult(response, envelope)]
    /\ UNCHANGED <<rpc, router, shared, tasks, genVars, arcVars>>

\* impl TestAPIClient for TwirpClient, boom: todo!()
Client_boom(name) ==
    /\ client' = [call |-> "boom",
                  result |-> [kind |-> "panic", msg |-> "not yet implemented"]]
    /\ UNCHANGED <<rpc, router, shared, tasks, genVars, arcVars>>

NextFix ==
    \/ TestApiRouter_New
    \/ TestApiRouter_AddPing
    \/ TestApiRouter_AddBoom
    \/ TestApiRouter_Return
    \/ \E t \in Tasks, path \in DispatchPaths, name \in Names : Dispatch(t, path, name)
    \/ \E base_url \in Bases, name \in Names, envelope \in BOOLEAN :
          Client_ping(base_url, name, envelope)
    \/ \E name \in Names : Client_boom(name)

SpecFix == InitFix /\ [][NextFix]_vars

(***************************************************************************)
(* Calling the generated `impl<T> Service for std::sync::Arc<T>`.          *)
(*                                                                         *)
(* Rust resolves the method call `receiver.m(..)` by probing candidate     *)
(* receiver types in order: the receiver's type U, then &U, then &mut U,   *)
(* then the same for each type U derefs to; the first candidate that is    *)
(* the self type of a method named m decides.  Two impls of the generated  *)
(* trait are in scope in the wrapper's body: the wrapper's own, whose      *)
(* methods take &Arc<T>, and T's (the where clause), whose methods take &T.*)
(***************************************************************************)
TypeOfReceiver(expr) ==
    CASE expr = "self"     -> "&Arc<T>"
      [] expr = "(*self)"  -> "Arc<T>"
      [] expr = "(**self)" -> "T"

Candidates(ty) ==
    CASE ty = "&Arc<T>" -> <<"&Arc<T>", "&&Arc<T>", "&mut &Arc<T>",
                             "Arc<T>", "&Arc<T>", "&mut Arc<T>", "T", "&T", "&mut T">>
      [] ty = "Arc<T>"  -> <<"Arc<T>", "&Arc<T>", "&mut Arc<T>", "T", "&T", "&mut T">>
      [] ty = "T"       -> <<"T", "&T", "&mut T">>

\* the impl whose method takes the candidate type as self, "" when none does
ImplTaking(candidate) ==
    CASE candidate = "&Arc<T>" -> "Arc<T>"
      [] candidate = "&T"      -> "T"
      [] OTHER                 -> ""

RECURSIVE FirstImpl(_)
FirstImpl(cands) ==
    IF cands = << >> THEN ""
    ELSE IF ImplTaking(Head(cands)) # "" THEN ImplTaking(Head(cands))
    ELSE FirstImpl(Tail(cands))

\* the impl a method call on this receiver expression runs
MethodProbe(expr) == FirstImpl(Candidates(TypeOfReceiver(expr)))

\* generated code to run: one service has been generated into buf
InitArc ==
    /\ gen \in { [async_trait_shim |-> b] : b \in BOOLEAN }
    /\ \E service \in Services :
          /\ Len(service.methods) > 0
          /\ buf = Emitted(gen, service)
          /\ calls = <<service>>
    /\ marks = <<0>>
    /\ FixtureIdle
    /\ ArcIdle

\* a caller invokes method number i of the trait on an Arc<T>, T = api
Arc_call(i, api, ctx, req) ==
    /\ arc.state = "idle"
    /\ LET fn == LinesOf(Segment(1), "arc_fn")[i]
       IN  /\ arc' = [state |-> "running", api |-> api, method |-> fn.name,
                      ctx |-> ctx, req |-> req, inner |-> 0]
           /\ stack' = << [impl |-> "Arc<T>", method |-> fn.name, line |-> i] >>
    /\ UNCHANGED <<genVars, fixVars>>

\* the body of the wrapper's method, the frame on top of the stack, runs its
\* forwarding call: into whichever impl the call resolves to
Arc_forward ==
    /\ arc.state = "running"
    /\ Len(stack) < MaxDepth
    /\ LET top    == stack[Len(stack)]
           call   == LinesOf(Segment(1), "arc_call")[top.line]
           target == MethodProbe(call.receiver)
       IN  IF target = "Arc<T>"
           THEN /\ stack' = Append(stack, [impl |-> "Arc<T>", method |-> call.callee,
                                           line |-> top.line])
                /\ UNCHANGED arc
           ELSE /\ stack' = << >>
                /\ arc' = [state |-> "done", api |-> arc.api, method |-> arc.method,
                           ctx |-> arc.ctx, req |-> arc.req, inner |-> arc.inner + 1,
                           result |-> ServerCall(arc.api, call.callee, arc.ctx, arc.req)]
    /\ UNCHANGED <<genVars, fixVars>>

\* the recursion has used up the stack: the process aborts
Arc_overflow ==
    /\ arc.state = "running"
    /\ Len(stack) = MaxDepth
    /\ arc' = [arc EXCEPT !.state = "aborted"]
    /\ UNCHANGED <<stack, genVars, fixVars>>

NextArc ==
    \/ \E i \in 1..Len(calls[1].methods), api \in Impls, ctx \in Ctxs, req \in Reqs :
          Arc_call(i, api, ctx, req)
    \/ Arc_forward
    \/ Arc_overflow

SpecArc == InitArc /\ [][NextArc]_vars

(***************************************************************************)
(* Claims about the generator, checked under SpecGen                       *)
(***************************************************************************)
WirePath(service, m) ==
    "/" \o service.package \o "." \o service.proto_name \o "/" \o m.proto_name

C4_DuplicateWireNamesRejected ==
    \A k \in 1..Len(calls) :
        LET routes == LinesOf(Segment(k), "route")
        IN  /\ ~DistinctWireNames(calls[k]) => Segment(k) = << >>
            /\ \A i, j \in 1..Len(routes) : routes[i].path = routes[j].path => i = j

TopLevelNames(lines) ==
    { lines[i].name : i \in { j \in 1..Len(lines) : lines[j].k \in {"const", "fn", "trait"} } }

TimesDefined(lines, n) ==
    Cardinality({ i \in 1..Len(lines) :
                     lines[i].k \in {"const", "fn", "trait"} /\ lines[i].name = n })

DistinctServiceNames ==
    \A i, j \in 1..Len(calls) : calls[i].name = calls[j].name => i = j

\* C10: after generate has run for services with pairwise distinct names,
\* what each earlier call wrote is still where it was written, and every
\* top-level item name in buf (SERVICE_FQN, router, the server and client
\* traits) is defined exactly once.
C10_ItemsDefinedOnce ==
    DistinctServiceNames =>
        /\ \A k \in 1..Len(calls) : marks[k] <= Len(buf)
        /\ \A n \in TopLevelNames(buf) : TimesDefined(buf, n) = 1

(***************************************************************************)
(* Claims about the generated Arc<T> impl, checked under SpecArc           *)
(***************************************************************************)
\* C5: a call of a trait method on the generated Arc<T> wrapper does not
\* forward to the wrapper's own method; it forwards to T's method exactly
\* once and completes with the result of calling T's method directly.
C5_WrapperForwardsToInnerOnce ==
    /\ \A i \in 2..Len(stack) : stack[i].impl # "Arc<T>"
    /\ arc.state # "aborted"
    /\ arc.state = "done" =>
          /\ arc.inner = 1
          /\ arc.result = ServerCall(arc.api, arc.method, arc.ctx, arc.req)

(***************************************************************************)
(* Claims about the fixture, checked under SpecFix                         *)
(***************************************************************************)
\* C2: whatever the request, the server's boom returns the ServerError with
\* code internal and msg "boom!", and the client's boom call returns
\* ClientError::BadStatus wrapping that ServerError.
C2_BoomSurfacesAsBadStatus ==
    /\ \A t \in Tasks :
          (tasks[t].state = "done" /\ tasks[t].request.path = "/twirp/test.TestAPI/Boom")
             => /\ tasks[t].response.kind = "ServerError"
                /\ tasks[t].response.err.code = "internal"
                /\ tasks[t].response.err.msg = "boom!"
    /\ client.call = "boom"
          => /\ client.result.kind = "BadStatus"
             /\ client.result.err.code = "internal"
             /\ client.result.err.msg = "boom!"

\* C3: a dispatch through the router of test_api_router at a path other than
\* its two registered paths returns NotFound and runs neither handler.
C3_UnregisteredPathNotFound ==
    \A t \in Tasks :
        (tasks[t].state = "done"
            /\ tasks[t].request.path
                  \notin {"/twirp/test.TestAPI/Ping", "/twirp/test.TestAPI/Boom"})
           => /\ tasks[t].response.kind = "NotFound"
              /\ tasks[t].response.invoked = "none"

\* a task has dispatched "/twirp/test.TestAPI/DoesNotExist" and got NotFound
C3_Witness ==
    \E t \in Tasks :
        /\ tasks[t].state = "done"
        /\ tasks[t].request.path = "/twirp/test.TestAPI/DoesNotExist"
        /\ tasks[t].response.kind = "NotFound"

\* C7: for every name n, gen_ping_request(n) dispatched through the router
\* of test_api_router runs the ping handler and yields a success response
\* whose body reads back as the name n.
C7_PingEchoesName ==
    \A t \in Tasks :
        (tasks[t].state = "done" /\ tasks[t].request = gen_ping_request(tasks[t].name))
           => /\ tasks[t].response.invoked = "ping"
              /\ tasks[t].response.status = 200
              /\ read_json_body(tasks[t].response.body)
                    = [ok |-> TRUE, name |-> tasks[t].name]

\* a ping for a name that needs escaping has been dispatched and answered
C7_Witness ==
    \E t \in Tasks :
        /\ tasks[t].state = "done"
        /\ tasks[t].request = gen_ping_request(<<Quote>>)
        /\ tasks[t].response.kind = "Ok"
        /\ tasks[t].response.body # JsonOfName(<< >>)

\* C8: the local router changes only while nothing has been shared, and
\* once test_api_router has returned the Arc<Router> the shared route table
\* never changes again.
C8_BuildThenFrozen ==
    [][ /\ (router' # router => (shared = NoRouter /\ shared' = NoRouter))
        /\ (shared # NoRouter => shared' = shared) ]_vars

\* both tasks have dispatched through the shared router, which holds the two
\* routes registered while it was being built
C8_Witness ==
    /\ shared = TestRouter
    /\ \A t \in Tasks : tasks[t].state = "done"
    /\ \E t1, t2 \in Tasks : tasks[t1].response.invoked # tasks[t2].response.invoked

\* C9: the path of the URL the client's ping posts to is one of the paths
\* registered in test_api_router, and the ping reaches the Ping handler.
C9_ClientPingPathRegistered ==
    client.call = "ping"
       => /\ \E i \in 1..Len(shared.routes) : shared.routes[i].path = client.path
          /\ client.invoked = "ping"

====
